---- MODULE Spec2Model ----
(***************************************************************************)
(* City of West Torrens development applications scraper (src/scraper.js). *)
(* One run of main(): initializeDatabase, the chain of requests that       *)
(* negotiates the ePathway session, the page loop that extracts rows and   *)
(* hands them to insertRow.  Text is modelled as sequences of one          *)
(* character strings so that the regular expressions, the date parser and  *)
(* the page count conversion are computed, not assumed.                    *)
(***************************************************************************)
EXTENDS Integers, Sequences, FiniteSets, TLC

\* ------------------------------------------------------------------ bounds
\* number of consecutive invocations of the script over the same data.sqlite
MaxRuns == 2
\* the largest page count the server reports in the model
BigPageCount == 102

\* ------------------------------------------------------------ text helpers
Digits == {"0", "1", "2", "3", "4", "5", "6", "7", "8", "9"}

WhiteSpace == {" ", "\t", "\n"}

IsDigit(c) == c \in Digits

DigitVal(c) ==
    CASE c = "0" -> 0 [] c = "1" -> 1 [] c = "2" -> 2 [] c = "3" -> 3
      [] c = "4" -> 4 [] c = "5" -> 5 [] c = "6" -> 6 [] c = "7" -> 7
      [] c = "8" -> 8 [] c = "9" -> 9

DigitChar(n) ==
    CASE n = 0 -> "0" [] n = 1 -> "1" [] n = 2 -> "2" [] n = 3 -> "3"
      [] n = 4 -> "4" [] n = 5 -> "5" [] n = 6 -> "6" [] n = 7 -> "7"
      [] n = 8 -> "8" [] n = 9 -> "9"

\* body applied to a value that is computed once
With(value, Body(_)) == CHOOSE r \in {Body(v) : v \in {value}} : TRUE

\* String.prototype.substring(from, to) with 0-based from, exclusive to
Substring(s, from, to) == SubSeq(s, from + 1, to)

\* Number(digits): the decimal value of a string of digits
RECURSIVE ToNumber(_)
ToNumber(ds) ==
    IF ds = <<>> THEN 0
    ELSE 10 * ToNumber(SubSeq(ds, 1, Len(ds) - 1)) + DigitVal(ds[Len(ds)])

\* the decimal digits of a natural number (template literal / format)
RECURSIVE ToDigits(_)
ToDigits(n) ==
    IF n < 10 THEN <<DigitChar(n)>>
    ELSE Append(ToDigits(n \div 10), DigitChar(n % 10))

\* a number zero-padded on the left to a width (moment's MM, DD, YYYY)
RECURSIVE ZeroPad(_, _)
ZeroPad(n, width) ==
    LET ds == ToDigits(n)
    IN  IF Len(ds) >= width THEN ds
        ELSE <<"0">> \o ZeroPad(n, width - 1)

\* String.prototype.trim()
RECURSIVE TrimLeft(_)
TrimLeft(s) ==
    IF s # <<>> /\ Head(s) \in WhiteSpace THEN TrimLeft(Tail(s)) ELSE s

RECURSIVE TrimRight(_)
TrimRight(s) ==
    IF s # <<>> /\ s[Len(s)] \in WhiteSpace
    THEN TrimRight(SubSeq(s, 1, Len(s) - 1)) ELSE s

Trim(s) == TrimRight(TrimLeft(s))

\* String.prototype.indexOf(pattern, from): 0-based index or -1
RECURSIVE IndexOf(_, _, _)
IndexOf(text, pattern, from) ==
    IF from + Len(pattern) > Len(text) THEN -1
    ELSE IF SubSeq(text, from + 1, from + Len(pattern)) = pattern THEN from
    ELSE IndexOf(text, pattern, from + 1)

\* the 1-based position just after the run of digits that starts at p
RECURSIVE DigitRunEnd(_, _)
DigitRunEnd(s, p) ==
    IF p <= Len(s) /\ IsDigit(s[p]) THEN DigitRunEnd(s, p + 1) ELSE p

\* ------------------------------------------------- application number test
\* /[0-9]+\/[0-9]+.*/ attempted at position p
AppNumberMatchAt(s, p) ==
    With(DigitRunEnd(s, p), LAMBDA e :
        /\ e > p
        /\ e <= Len(s)
        /\ s[e] = "/"
        /\ e + 1 <= Len(s)
        /\ IsDigit(s[e + 1]))

\* the pattern is tried at the start of the text only
TestApplicationNumberAtStart(s) == Len(s) >= 1 /\ AppNumberMatchAt(s, 1)

\* RegExp.prototype.test: the pattern is tried at every position
TestApplicationNumber(s) == \E p \in 1..Len(s) : AppNumberMatchAt(s, p)

\* --------------------------------------------------------------- moment.js
\* a value that is no text: null, or the result of a failed match
Null == <<"null">>

\* every year has a 29th of February
IsLeapYearAlways(y) == TRUE

IsLeapYear(y) == (y % 4 = 0 /\ y % 100 # 0) \/ y % 400 = 0

\* every month has 31 days
DaysInMonthAlways31(y, m) == 31

DaysInMonth(y, m) ==
    IF m = 2 THEN (IF IsLeapYear(y) THEN 29 ELSE 28)
    ELSE IF m \in {4, 6, 9, 11} THEN 30 ELSE 31

\* positions p .. p+n-1 of s are all digits
DigitsAt(s, p, n) ==
    /\ p >= 1
    /\ p + n - 1 <= Len(s)
    /\ \A i \in p..(p + n - 1) : IsDigit(s[i])

\* string.match(regex) for a token of the format: the first position where
\* the token's expression matches and the length it consumes, 0 when none
\* (D is /\d\d?/, MM is /\d\d/, YYYY in strict mode is /\d{4}/, and a
\* literal is itself)
TokenMatch(s, tok) ==
    LET need == CASE tok = "D" -> 1 [] tok = "MM" -> 2 [] tok = "YYYY" -> 4
                  [] OTHER -> 0
    IN  With(IF need = 0
             THEN {p \in 1..Len(s) : s[p] = tok}
             ELSE {p \in 1..Len(s) : DigitsAt(s, p, need)}, LAMBDA hits :
            IF hits = {} THEN [pos |-> 0, len |-> 0]
            ELSE With(CHOOSE q \in hits : \A r \in hits : q <= r, LAMBDA p :
                    [pos |-> p,
                     len |-> IF tok = "D"
                             THEN (IF DigitsAt(s, p, 2) THEN 2 ELSE 1)
                             ELSE IF need = 0 THEN 1 ELSE need]))

\* one round of the token loop of configFromStringAndFormat: the text before
\* the match is skipped (and stays unparsed), the match is consumed
ParseStep(st, tok) ==
    With(TokenMatch(st.rest, tok), LAMBDA m :
        IF m.pos = 0
        THEN [st EXCEPT !.unusedTokens = @ + 1, !.vals = Append(@, -1)]
        ELSE [rest |-> SubSeq(st.rest, m.pos + m.len, Len(st.rest)),
              parsed |-> st.parsed + m.len,
              unusedTokens |-> st.unusedTokens,
              vals |-> Append(st.vals,
                        IF tok = "/" THEN -1
                        ELSE ToNumber(SubSeq(st.rest, m.pos, m.pos + m.len - 1)))])

FormatTokens == <<"D", "/", "MM", "/", "YYYY">>

RECURSIVE ParseTokens(_, _)
ParseTokens(st, toks) ==
    IF toks = <<>> THEN st
    ELSE With(ParseStep(st, Head(toks)), LAMBDA next :
            ParseTokens(next, Tail(toks)))

\* moment(text, "D/MM/YYYY", true): the parsed parts and isValid()
MomentParse(text) ==
    With(ParseTokens([rest |-> text, parsed |-> 0, unusedTokens |-> 0,
                      vals |-> <<>>], FormatTokens), LAMBDA st :
        LET d == st.vals[1]
            m == st.vals[3]
            y == st.vals[5]
            charsLeftOver == Len(text) - st.parsed
        IN  [day |-> d, month |-> m, year |-> y,
             valid |-> /\ charsLeftOver = 0
                       /\ st.unusedTokens = 0
                       /\ m >= 1 /\ m <= 12
                       /\ d >= 1 /\ d <= DaysInMonth(y, m)])

\* moment.format("YYYY-MM-DD")
FormatYMD(y, m, d) ==
    ZeroPad(y, 4) \o <<"-">> \o ZeroPad(m, 2) \o <<"-">> \o ZeroPad(d, 2)

\* moment.format("DD/MM/YYYY")
FormatDMY(y, m, d) ==
    ZeroPad(d, 2) \o <<"/">> \o ZeroPad(m, 2) \o <<"/">> \o ZeroPad(y, 4)

\* -------------------------------------------------------------- parseToken
\* the marker without the page it follows
JsMarkerShort == <<"j", "s", "=">>

\* text.indexOf(".aspx?js=")
JsMarker == <<".", "a", "s", "p", "x", "?", "j", "s", "=">>

\* the double quotes are left as they are
ReplaceQuotesNone(text) == text

\* text.replace(/"/g, "'")
ReplaceQuotes(text) ==
    [i \in 1..Len(text) |-> IF text[i] = "\"" THEN "'" ELSE text[i]]

\* the "js=" token of the first script that has one, else null
RECURSIVE parseToken(_)
parseToken(scripts) ==
    IF scripts = <<>> THEN Null
    ELSE LET text == Head(scripts)
             found == IndexOf(text, JsMarker, 0)
             startIndex == found + Len(JsMarker)
             endIndex == IndexOf(ReplaceQuotes(text), <<"'">>, startIndex)
         IN  IF found >= 0 /\ endIndex > startIndex
             THEN Substring(text, startIndex, endIndex)
             ELSE parseToken(Tail(scripts))

\* -------------------------------------------------------------- page count
\* pageCountText.match(/[0-9]+$/): the digits the text ends in, else null
MatchTrailingDigits(text) ==
    IF text = <<>> \/ ~IsDigit(text[Len(text)]) THEN Null
    ELSE LET starts == {p \in 1..Len(text) : DigitsAt(text, p, Len(text) - p + 1)}
             p == CHOOSE q \in starts : \A r \in starts : q <= r
         IN  SubSeq(text, p, Len(text))

\* reading [0] of a null match throws a TypeError
PageCountThrows(text) == MatchTrailingDigits(text) = Null

\* Number(match[0]), whatever the number
PageCountOfRaw(text) == ToNumber(MatchTrailingDigits(text))

\* Math.max(1, Number(match[0])) || 1
PageCountOf(text) ==
    LET n == ToNumber(MatchTrailingDigits(text))
        m == IF n > 1 THEN n ELSE 1
    IN  IF m = 0 THEN 1 ELSE m

\* ------------------------------------------------------------ the web site
\* what a response can contain: table rows (each a sequence of td texts),
\* a paging label, scripts of the landing page, the two hidden fields
AppNo123 == <<"1", "2", "3", "/", "2", "0", "2", "4">>
AppNo123Padded == <<" ", "1", "2", "3", "/", "2", "0", "2", "4", " ">>
AppNo124 == <<"1", "2", "4", "/", "2", "0", "2", "4">>
AppNo125 == <<"1", "2", "5", "/", "2", "0", "2", "4">>
AppNo126 == <<"1", "2", "6", "/", "2", "0", "2", "4">>

RowCarport == <<AppNo123, <<"8", "/", "0", "3", "/", "2", "0", "2", "4">>, <<"C", "a", "r", "p", "o", "r", "t">>, <<"1", " ", "S", "m", "i", "t", "h", " ", "S", "t">>>>
RowHeading == <<<<>>, <<>>, <<"H", "e", "a", "d", "i", "n", "g">>, <<>>>>
RowGarage == <<AppNo123Padded, <<"0", "8", "/", "0", "3", "/", "2", "0", "2", "4">>, <<"G", "a", "r", "a", "g", "e">>, <<"1", " ", "S", "m", "i", "t", "h", " ", "S", "t">>>>
RowShed == <<AppNo124, <<"2", "9", "/", "0", "2", "/", "2", "0", "2", "4">>, <<"S", "h", "e", "d">>, <<"2", " ", "S", "m", "i", "t", "h", " ", "S", "t">>, <<"x">>>>
RowShort == <<AppNo125, <<"8", "/", "0", "3", "/", "2", "0", "2", "4">>, <<"D", "e", "c", "k">>>>
RowBadDate == <<AppNo126, <<"8", "/", "3", "/", "2", "0", "2", "4">>, <<"P", "o", "o", "l">>, <<"2", " ", "S", "m", "i", "t", "h", " ", "S", "t">>>>

PageScenario == <<RowCarport, RowHeading>>
PageMixed == <<RowBadDate, RowGarage, RowShed>>
PageShort == <<RowShort>>

Pages == {PageScenario, PageMixed, PageShort, <<>>}

\* "... of <n>", the text of the paging label
LabelOf(n) == <<"o", "f", " ">> \o ToDigits(n)
LabelNoDigits == <<"P", "a", "g", "e", " ", "1", " ", "o", "f">>

PageCounts == {0, 1, 2, 3, BigPageCount}

\* an absent label has the text "" as well
Labels == {<<>>, LabelNoDigits} \cup {LabelOf(n) : n \in PageCounts}

ScriptsWithToken == <<<<"v", "a", "r", " ", "a", ";">>, <<"x", ".", "a", "s", "p", "x", "?", "j", "s", "=", "a", "b", "c", "1", "2", "3", "'", ";">>>>
ScriptsNoToken == <<<<"v", "a", "r", " ", "a", ";">>>>

LandingScripts == {ScriptsWithToken, ScriptsNoToken, <<>>}

\* .val() of an input that is not in the document
Undefined == "undefined"

\* the (__EVENTVALIDATION, __VIEWSTATE) fields of a response
TokenPairs ==
    { [ev |-> "ev1", vs |-> "vs1"],
      [ev |-> Undefined, vs |-> "vs2"], [ev |-> "ev2", vs |-> Undefined] }

\* a site of more than three pages shows the same page of rows throughout
\* and always has both hidden fields
LongSitePages == {PageScenario}
LongSiteTokenPairs ==
    { [ev |-> "ev1", vs |-> "vs1"], [ev |-> "ev2", vs |-> "vs2"] }

IsLongSite(count) == count > 3

PagesOf(count) == IF IsLongSite(count) THEN LongSitePages ELSE Pages
TokenPairsOf(count) ==
    IF IsLongSite(count) THEN LongSiteTokenPairs ELSE TokenPairs

DevelopmentApplicationsInformationUrl == "EnquiryLists.aspx?ModuleCode=LAP"

\* no date has been read from the clock
NoDate == [y |-> 0, m |-> 0, d |-> 0]

\* the day of the month is kept whatever the month
SubtractMonthNoClamp(today) ==
    [y |-> IF today.m = 1 THEN today.y - 1 ELSE today.y,
     m |-> IF today.m = 1 THEN 12 ELSE today.m - 1,
     d |-> today.d]

\* moment().subtract(1, "months"): the month before, the day of the month
\* kept unless that month is shorter, then its last day
SubtractMonth(today) ==
    With(IF today.m = 1 THEN today.y - 1 ELSE today.y, LAMBDA y :
    With(IF today.m = 1 THEN 12 ELSE today.m - 1, LAMBDA m :
        [y |-> y, m |-> m,
         d |-> IF today.d <= DaysInMonth(y, m) THEN today.d
               ELSE DaysInMonth(y, m)]))

\* moment(): the date of the run
Today(r) == [y |-> 2024, m |-> 3, d |-> 8 + r]

\* a row left in data.sqlite by an earlier invocation
OldRow ==
    [council_reference |-> AppNo123, address |-> <<"o", "l", "d">>,
     description |-> <<"o", "l", "d">>,
     info_url |-> DevelopmentApplicationsInformationUrl,
     date_scraped |-> FormatYMD(2024, 2, 1),
     date_received |-> FormatYMD(2024, 1, 31)]

\* ------------------------------------------------------------------- state
VARIABLES
    run,              \* which invocation of the script this is
    pc,               \* the position of main()
    schema,           \* the data table: "none", "legacy" (on_notice_from), "current"
    store,            \* the rows of the data table
    token,            \* the "js=" token of the landing page, or null
    eventValidation,  \* the value of __EVENTVALIDATION last extracted
    viewState,        \* the value of __VIEWSTATE last extracted
    pageNumber,
    pageCount,
    pageCountText,    \* the text of the paging label of the first page
    rows,             \* $("tr") of the page being parsed
    rowIndex,         \* the row the for loop is at
    pending,          \* rows handed to insertRow whose promise is not settled
    inflight,         \* requests whose promise is not settled
    lastReq,          \* the request sent last
    error,            \* what main() was rejected with
    reported,         \* console.error(error) of the top level has run
    respTokens,       \* history: the hidden fields of the last response read
    sent,             \* history: requests sent in this run
    pagePosts,        \* history: page-fetch POSTs sent in this run
    processed,        \* history: pages whose rows have all been handled
    yielded,          \* history: rows of this page handed to insertRow
    scriptTexts,      \* the texts of the scripts of the landing page in body
    seenKeys,         \* history: application numbers handed to insertRow in this run
    rbRecords,        \* scraper.rb: the records EpathwayScraper.scrape yields
    rbIndex,          \* scraper.rb: how many of them the block has been called with
    rbSaved,          \* scraper.rb: the records passed to EpathwayScraper.save
    dateFrom,         \* the text of the from date of the search
    dateTo,           \* the text of the to date of the search
    searchDate        \* history: the date moment() gave when the search was made

vars == <<run, pc, schema, store, token, eventValidation, viewState,
          pageNumber, pageCount, pageCountText, rows, rowIndex, pending,
          inflight, lastReq,
          error, reported, respTokens, sent, pagePosts, processed, yielded,
          scriptTexts, seenKeys, rbRecords, rbIndex, rbSaved,
          dateFrom, dateTo, searchDate>>

rubyVars == <<rbRecords, rbIndex, rbSaved>>
searchVars == <<dateFrom, dateTo, searchDate>>
dbVars == <<schema, store>>
sessionVars == <<token, eventValidation, viewState, respTokens>>
cursorVars == <<pageNumber, pageCount, pageCountText>>
rowVars == <<rows, rowIndex, yielded>>
errorVars == <<error, reported>>
countVars == <<sent, pagePosts, processed>>

NoRequest ==
    [kind |-> "none", page |-> 0, js |-> Null,
     ev |-> "n/a", vs |-> "n/a"]

\* a request as the server sees it
Request(kind, page, js, ev, vs) ==
    [kind |-> kind, page |-> page, js |-> js, ev |-> ev, vs |-> vs]

\* scraper.rb has not been started
RubyIdle ==
    /\ rbRecords = <<>>
    /\ rbIndex = 0
    /\ rbSaved = <<>>

\* the locals of main() before it has run
FreshRun ==
    /\ token = Null
    /\ eventValidation = Undefined
    /\ viewState = Undefined
    /\ pageNumber = 0
    /\ pageCount = 0
    /\ pageCountText = <<>>
    /\ rows = <<>>
    /\ rowIndex = 0
    /\ pending = <<>>
    /\ inflight = 0
    /\ lastReq = NoRequest
    /\ error = "none"
    /\ reported = FALSE
    /\ respTokens = [ev |-> Undefined, vs |-> Undefined]
    /\ sent = 0
    /\ pagePosts = 0
    /\ processed = 0
    /\ yielded = <<>>
    /\ scriptTexts = <<>>
    /\ seenKeys = {}
    /\ dateFrom = <<>>
    /\ dateTo = <<>>
    /\ searchDate = NoDate

\* data.sqlite is absent, or was left by an earlier invocation of this or of
\* the earlier revision of the script (whose table has on_notice_from)
Init ==
    /\ run = 1
    /\ pc = "Start"
    /\ \/ schema = "none" /\ store = {}
       \/ schema = "current" /\ store \in {{}, {OldRow}}
       \/ schema = "legacy" /\ store = {OldRow}
    /\ FreshRun
    /\ RubyIdle

\* ------------------------------------------------------------ the database
\* the table is dropped whatever its columns
initializeDatabaseAlwaysDrops ==
    /\ pc = "Start"
    /\ store' = {}
    /\ schema' = "current"
    /\ pc' = "Landing"
    /\ UNCHANGED <<run, searchVars, rubyVars, scriptTexts, seenKeys,
                   sessionVars, cursorVars, rowVars, pending, inflight,
                   lastReq, errorVars, countVars>>

\* drop table [data] when it has on_notice_from; create table if not exists
initializeDatabase ==
    /\ pc = "Start"
    /\ store' = IF schema = "legacy" THEN {} ELSE store
    /\ schema' = "current"
    /\ pc' = "Landing"
    /\ UNCHANGED <<run, searchVars, rubyVars, scriptTexts, seenKeys,
                   sessionVars, cursorVars, rowVars, pending, inflight,
                   lastReq, errorVars, countVars>>

\* the address and the description are bound to each other's column
BoundRowShifted(developmentApplication) ==
    [council_reference |-> developmentApplication.applicationNumber,
     address |-> developmentApplication.description,
     description |-> developmentApplication.address,
     info_url |-> developmentApplication.informationUrl,
     date_scraped |-> developmentApplication.scrapeDate,
     date_received |-> developmentApplication.receivedDate]

\* the row that insertRow binds to the six columns
BoundRow(developmentApplication) ==
    [council_reference |-> developmentApplication.applicationNumber,
     address |-> developmentApplication.address,
     description |-> developmentApplication.description,
     info_url |-> developmentApplication.informationUrl,
     date_scraped |-> developmentApplication.scrapeDate,
     date_received |-> developmentApplication.receivedDate]

\* insert into a table without a conflict clause and without a key
InsertPlain(table, row) == table \cup {row}

\* "insert or replace" into a table whose primary key is council_reference
InsertOrReplace(table, row) ==
    {r \in table : r.council_reference # row.council_reference} \cup {row}

\* main() is rejected; the catch of the top level prints the error
Throw(kind) ==
    /\ pc' = "Error"
    /\ error' = kind
    /\ reported' = TRUE

\* ------------------------------------------------------------ the requests
AwaitingResponse ==
    {"AwaitLanding", "AwaitToken", "AwaitLists", "AwaitTab", "AwaitSearch",
     "AwaitPage"}

\* request(...) is called: the request is on its way
Send(req) ==
    /\ inflight' = inflight + 1
    /\ lastReq' = req
    /\ sent' = sent + 1

\* the hidden fields are not read again: the pair in hand is kept
ExtractTokensStale(body) == [ev |-> eventValidation, vs |-> viewState]

\* $("input[name='__EVENTVALIDATION']").val(), $("input[name='__VIEWSTATE']").val()
ExtractTokens(body) == [ev |-> body.ev, vs |-> body.vs]

\* a response with hidden fields has arrived and they are read
ReadTokens(body) ==
    /\ eventValidation' = ExtractTokens(body).ev
    /\ viewState' = ExtractTokens(body).vs
    /\ respTokens' = body

SendLanding ==
    /\ pc = "Landing"
    /\ Send(Request("landing", 0, Null, "n/a", "n/a"))
    /\ pc' = "AwaitLanding"
    /\ UNCHANGED <<run, searchVars, rubyVars, scriptTexts, seenKeys, dbVars,
                   sessionVars, cursorVars, rowVars, pending, errorVars,
                   pagePosts, processed>>

\* the landing page is never fetched again, whatever its scripts hold
RecvLandingNoRefetch(inputs) ==
    /\ pc = "AwaitLanding"
    /\ inflight > 0
    /\ \E scripts \in inputs :
          /\ scriptTexts' = scripts
          /\ token' = parseToken(scripts)
          /\ pc' = "Lists"
    /\ inflight' = inflight - 1
    /\ UNCHANGED <<run, searchVars, rubyVars, seenKeys, dbVars,
                   eventValidation, viewState, respTokens, cursorVars,
                   rowVars, pending, lastReq, errorVars, countVars>>

\* body = await request(landing); token = parseToken(body)
RecvLandingFrom(inputs) ==
    /\ pc = "AwaitLanding"
    /\ inflight > 0
    /\ \E scripts \in inputs :
          /\ scriptTexts' = scripts
          /\ token' = parseToken(scripts)
          /\ pc' = IF parseToken(scripts) # Null THEN "Token" ELSE "Lists"
    /\ inflight' = inflight - 1
    /\ UNCHANGED <<run, searchVars, rubyVars, seenKeys, dbVars,
                   eventValidation, viewState, respTokens, cursorVars,
                   rowVars, pending, lastReq, errorVars, countVars>>

RecvLanding == RecvLandingFrom(LandingScripts)

SendTokenGet ==
    /\ pc = "Token"
    /\ Send(Request("token", 0, token, "n/a", "n/a"))
    /\ pc' = "AwaitToken"
    /\ UNCHANGED <<run, searchVars, rubyVars, scriptTexts, seenKeys, dbVars,
                   sessionVars, cursorVars, rowVars, pending, errorVars,
                   pagePosts, processed>>

RecvTokenGet ==
    /\ pc = "AwaitToken"
    /\ inflight > 0
    /\ inflight' = inflight - 1
    /\ scriptTexts' = <<>>
    /\ pc' = "Lists"
    /\ UNCHANGED <<run, searchVars, rubyVars, seenKeys, dbVars, sessionVars,
                   cursorVars, rowVars, pending, lastReq, errorVars,
                   countVars>>

SendLists ==
    /\ pc = "Lists"
    /\ Send(Request("lists", 0, Null, "n/a", "n/a"))
    /\ pc' = "AwaitLists"
    /\ UNCHANGED <<run, searchVars, rubyVars, scriptTexts, seenKeys, dbVars,
                   sessionVars, cursorVars, rowVars, pending, errorVars,
                   pagePosts, processed>>

\* the search is submitted without the switch of tab
RecvListsSkipsTab ==
    /\ pc = "AwaitLists"
    /\ inflight > 0
    /\ \E body \in TokenPairs : ReadTokens(body)
    /\ inflight' = inflight - 1
    /\ scriptTexts' = <<>>
    /\ pc' = "Search"
    /\ UNCHANGED <<run, searchVars, rubyVars, seenKeys, dbVars, token,
                   cursorVars, rowVars, pending, lastReq, errorVars,
                   countVars>>

RecvLists ==
    /\ pc = "AwaitLists"
    /\ inflight > 0
    /\ \E body \in TokenPairs : ReadTokens(body)
    /\ inflight' = inflight - 1
    /\ scriptTexts' = <<>>
    /\ pc' = "Tab"
    /\ UNCHANGED <<run, searchVars, rubyVars, seenKeys, dbVars, token,
                   cursorVars, rowVars, pending, lastReq, errorVars,
                   countVars>>

SendTab ==
    /\ pc = "Tab"
    /\ Send(Request("tab", 0, Null, eventValidation, viewState))
    /\ pc' = "AwaitTab"
    /\ UNCHANGED <<run, searchVars, rubyVars, scriptTexts, seenKeys, dbVars,
                   sessionVars, cursorVars, rowVars, pending, errorVars,
                   pagePosts, processed>>

RecvTab ==
    /\ pc = "AwaitTab"
    /\ inflight > 0
    /\ \E body \in TokenPairs : ReadTokens(body)
    /\ inflight' = inflight - 1
    /\ pc' = "Search"
    /\ UNCHANGED <<run, searchVars, rubyVars, scriptTexts, seenKeys, dbVars,
                   token, cursorVars, rowVars, pending, lastReq, errorVars,
                   countVars>>

\* dateFrom, dateTo, then the POST of the search
SendSearchOn(today) ==
    /\ pc = "Search"
    /\ Send(Request("search", 0, Null, eventValidation, viewState))
    /\ dateFrom' = FormatDMY(SubtractMonth(today).y, SubtractMonth(today).m,
                             SubtractMonth(today).d)
    /\ dateTo' = FormatDMY(today.y, today.m, today.d)
    /\ searchDate' = today
    /\ pc' = "AwaitSearch"
    /\ UNCHANGED <<run, rubyVars, scriptTexts, seenKeys, dbVars, sessionVars,
                   cursorVars, rowVars, pending, errorVars, pagePosts,
                   processed>>

SendSearch == SendSearchOn(Today(run))

\* the first page of results: the hidden fields, then the page count
RecvSearch ==
    /\ pc = "AwaitSearch"
    /\ inflight > 0
    /\ inflight' = inflight - 1
    /\ \E label \in Labels :
       \E body \in (IF PageCountThrows(label) THEN TokenPairs
                    ELSE TokenPairsOf(PageCountOf(label))),
          page \in (IF PageCountThrows(label) THEN Pages
                    ELSE PagesOf(PageCountOf(label))) :
          /\ ReadTokens(body)
          /\ rows' = page
          /\ pageNumber' = 1
          /\ pageCountText' = label
          /\ IF PageCountThrows(label)
             THEN /\ Throw("TypeError")
                  /\ pageCount' = pageCount
             ELSE /\ pageCount' = PageCountOf(label)
                  /\ pc' = "LoopTop"
                  /\ UNCHANGED errorVars
    /\ UNCHANGED <<run, searchVars, rubyVars, scriptTexts, seenKeys, dbVars,
                   token, rowIndex, yielded, pending, lastReq, countVars>>

\* the position of main() that sends a request of a kind
SenderOf(kind) ==
    CASE kind = "landing" -> "Landing" [] kind = "token" -> "Token"
      [] kind = "lists" -> "Lists" [] kind = "tab" -> "Tab"
      [] kind = "search" -> "Search" [] kind = "page" -> "AfterRows"

\* a request is rejected, the error is printed and the request is sent again
FailRequestRetry ==
    /\ pc \in AwaitingResponse
    /\ inflight > 0
    /\ inflight' = inflight - 1
    /\ pc' = SenderOf(lastReq.kind)
    /\ error' = "transport"
    /\ reported' = TRUE
    /\ UNCHANGED <<run, searchVars, rubyVars, scriptTexts, seenKeys, dbVars,
                   sessionVars, cursorVars, rowVars, pending, lastReq,
                   countVars>>

\* a request is rejected (no connection, or a status that is not 2xx): the
\* await throws and main() is rejected
FailRequest ==
    /\ pc \in AwaitingResponse
    /\ inflight > 0
    /\ inflight' = inflight - 1
    /\ Throw("transport")
    /\ UNCHANGED <<run, searchVars, rubyVars, scriptTexts, seenKeys, dbVars,
                   sessionVars, cursorVars, rowVars, pending, lastReq,
                   countVars>>

\* --------------------------------------------------------------- the pages
\* the limit of the while condition of the page loop
HardLimit == 100

\* the row is taken whatever its date cell holds
RowAcceptedAnyDate(tableCells) ==
    /\ Len(tableCells) >= 4
    /\ With(Trim(tableCells[1]), LAMBDA applicationNumber :
            TestApplicationNumber(applicationNumber))

\* tableCells.length >= 4, the test of the application number, isValid()
RowAccepted(tableCells) ==
    /\ Len(tableCells) >= 4
    /\ With(Trim(tableCells[1]), LAMBDA applicationNumber :
            TestApplicationNumber(applicationNumber))
    /\ With(Trim(tableCells[2]), LAMBDA text : MomentParse(text).valid)

\* the address is read from the last cell of the row
DevelopmentApplicationLastCell(tableCells, today) ==
    With(MomentParse(Trim(tableCells[2])), LAMBDA receivedDate :
        [applicationNumber |-> Trim(tableCells[1]),
         address |-> Trim(tableCells[Len(tableCells)]),
         description |-> Trim(tableCells[3]),
         informationUrl |-> DevelopmentApplicationsInformationUrl,
         scrapeDate |-> FormatYMD(today.y, today.m, today.d),
         receivedDate |-> IF receivedDate.valid
                          THEN FormatYMD(receivedDate.year, receivedDate.month,
                                         receivedDate.day)
                          ELSE <<>>])

\* the object that is handed to insertRow for a row
DevelopmentApplication(tableCells, today) ==
    With(MomentParse(Trim(tableCells[2])), LAMBDA receivedDate :
        [applicationNumber |-> Trim(tableCells[1]),
         address |-> Trim(tableCells[4]),
         description |-> Trim(tableCells[3]),
         informationUrl |-> DevelopmentApplicationsInformationUrl,
         scrapeDate |-> FormatYMD(today.y, today.m, today.d),
         receivedDate |-> IF receivedDate.valid
                          THEN FormatYMD(receivedDate.year, receivedDate.month,
                                         receivedDate.day)
                          ELSE <<>>])

\* the loop is left one page early
BreakConditionEarly(number, count) == number >= count

\* if (pageNumber > pageCount) break
BreakCondition(number, count) == number > count

\* while (pageCount === null || pageNumber <= pageCount || pageNumber >= 100);
\* pageCount is a number here, never null
LoopContinues(number, count) == number <= count \/ number >= HardLimit

\* the top of the do loop: pageNumber++, then the rows of the page in hand
ParsePage ==
    /\ pc = "LoopTop"
    /\ pageNumber' = pageNumber + 1
    /\ rowIndex' = 1
    /\ yielded' = <<>>
    /\ pc' = "Rows"
    /\ UNCHANGED <<run, searchVars, rubyVars, scriptTexts, seenKeys, dbVars,
                   sessionVars, pageCount, pageCountText, rows, pending,
                   inflight, lastReq, errorVars, countVars>>

\* a row whose application number is in the table already is passed over too
SkipRowStored ==
    /\ pc = "Rows"
    /\ rowIndex <= Len(rows)
    /\ \/ ~RowAccepted(rows[rowIndex])
       \/ \E r \in store : r.council_reference = Trim(rows[rowIndex][1])
    /\ rowIndex' = rowIndex + 1
    /\ UNCHANGED <<run, searchVars, rubyVars, scriptTexts, seenKeys, pc,
                   dbVars, sessionVars, cursorVars, rows, yielded, pending,
                   inflight, lastReq, errorVars, countVars>>

\* a row that is not an application is passed over
SkipRow ==
    /\ pc = "Rows"
    /\ rowIndex <= Len(rows)
    /\ ~RowAccepted(rows[rowIndex])
    /\ rowIndex' = rowIndex + 1
    /\ UNCHANGED <<run, searchVars, rubyVars, scriptTexts, seenKeys, pc,
                   dbVars, sessionVars, cursorVars, rows, yielded, pending,
                   inflight, lastReq, errorVars, countVars>>

\* insertRow is called and main() goes on with the next row at once
InsertRowCallNoAwait ==
    /\ pc = "Rows"
    /\ rowIndex <= Len(rows)
    /\ RowAccepted(rows[rowIndex])
    /\ pending' = Append(pending,
                         DevelopmentApplication(rows[rowIndex], Today(run)))
    /\ seenKeys' = seenKeys \cup
          {DevelopmentApplication(rows[rowIndex], Today(run)).applicationNumber}
    /\ yielded' = Append(yielded,
                         [row |-> rowIndex,
                          da |-> DevelopmentApplication(rows[rowIndex], Today(run))])
    /\ rowIndex' = rowIndex + 1
    /\ UNCHANGED <<run, searchVars, rubyVars, scriptTexts, pc, dbVars,
                   sessionVars, cursorVars, rows, inflight, lastReq,
                   errorVars, countVars>>

\* await insertRow(database, {...}): the call is made, main() waits
InsertRowCall ==
    /\ pc = "Rows"
    /\ rowIndex <= Len(rows)
    /\ RowAccepted(rows[rowIndex])
    /\ pending' = Append(pending,
                         DevelopmentApplication(rows[rowIndex], Today(run)))
    /\ seenKeys' = seenKeys \cup
          {DevelopmentApplication(rows[rowIndex], Today(run)).applicationNumber}
    /\ yielded' = Append(yielded,
                         [row |-> rowIndex,
                          da |-> DevelopmentApplication(rows[rowIndex], Today(run))])
    /\ pc' = "AwaitInsert"
    /\ UNCHANGED <<run, searchVars, rubyVars, scriptTexts, dbVars,
                   sessionVars, cursorVars, rows, rowIndex, inflight, lastReq,
                   errorVars, countVars>>

\* the promise is resolved though the row was not written
InsertRowDoneLost ==
    /\ pending # <<>>
    /\ store' = store
    /\ pending' = Tail(pending)
    /\ IF pc = "AwaitInsert"
       THEN pc' = "Rows" /\ rowIndex' = rowIndex + 1
       ELSE UNCHANGED <<pc, rowIndex>>
    /\ UNCHANGED <<run, searchVars, rubyVars, scriptTexts, seenKeys, schema,
                   sessionVars, cursorVars, rows, yielded, inflight, lastReq,
                   errorVars, countVars>>

\* the statement has run: the row is in the table, the promise is resolved
\* and main(), when it waits for it, goes on with the next row
InsertRowDone ==
    /\ pending # <<>>
    /\ store' = InsertOrReplace(store, BoundRow(Head(pending)))
    /\ pending' = Tail(pending)
    /\ IF pc = "AwaitInsert"
       THEN pc' = "Rows" /\ rowIndex' = rowIndex + 1
       ELSE UNCHANGED <<pc, rowIndex>>
    /\ UNCHANGED <<run, searchVars, rubyVars, scriptTexts, seenKeys, schema,
                   sessionVars, cursorVars, rows, yielded, inflight, lastReq,
                   errorVars, countVars>>

\* the statement has failed: the error is printed, the loop goes on
InsertRowFailLogged ==
    /\ pc = "AwaitInsert"
    /\ pending # <<>>
    /\ pending' = Tail(pending)
    /\ error' = "store"
    /\ reported' = TRUE
    /\ pc' = "Rows"
    /\ rowIndex' = rowIndex + 1
    /\ UNCHANGED <<run, searchVars, rubyVars, scriptTexts, seenKeys, dbVars,
                   sessionVars, cursorVars, rows, yielded, inflight, lastReq,
                   countVars>>

\* the statement has failed: the promise is rejected, main() is rejected
InsertRowFail ==
    /\ pc = "AwaitInsert"
    /\ pending # <<>>
    /\ pending' = Tail(pending)
    /\ Throw("store")
    /\ UNCHANGED <<run, searchVars, rubyVars, scriptTexts, seenKeys, dbVars,
                   sessionVars, cursorVars, rowVars, inflight, lastReq,
                   countVars>>

\* the for loop over the rows ends at the first row that is not an application
RowsDoneAtRejectedRow ==
    /\ pc = "Rows"
    /\ IF rowIndex <= Len(rows)
       THEN ~RowAccepted(rows[rowIndex])
       ELSE TRUE
    /\ processed' = processed + 1
    /\ pc' = "AfterRows"
    /\ UNCHANGED <<run, searchVars, rubyVars, scriptTexts, seenKeys, dbVars,
                   sessionVars, cursorVars, rowVars, pending, inflight,
                   lastReq, errorVars, sent, pagePosts>>

\* the for loop over the rows has ended
RowsDone ==
    /\ pc = "Rows"
    /\ rowIndex > Len(rows)
    /\ processed' = processed + 1
    /\ pc' = "AfterRows"
    /\ UNCHANGED <<run, searchVars, rubyVars, scriptTexts, seenKeys, dbVars,
                   sessionVars, cursorVars, rowVars, pending, inflight,
                   lastReq, errorVars, sent, pagePosts>>

\* the break: main() returns and "Complete." is printed
LoopBreak ==
    /\ pc = "AfterRows"
    /\ BreakCondition(pageNumber, pageCount)
    /\ pc' = "Done"
    /\ UNCHANGED <<run, searchVars, rubyVars, scriptTexts, seenKeys, dbVars,
                   sessionVars, cursorVars, rowVars, pending, inflight,
                   lastReq, errorVars, countVars>>

\* the POST for the next page
SendPage ==
    /\ pc = "AfterRows"
    /\ ~BreakCondition(pageNumber, pageCount)
    /\ Send(Request("page", pageNumber, Null, eventValidation, viewState))
    /\ pagePosts' = pagePosts + 1
    /\ pc' = "AwaitPage"
    /\ UNCHANGED <<run, searchVars, rubyVars, scriptTexts, seenKeys, dbVars,
                   sessionVars, cursorVars, rowVars, pending, errorVars,
                   processed>>

\* the page count is read again from every page that arrives
RecvPageRecount(bodies, pages) ==
    /\ pc = "AwaitPage"
    /\ inflight > 0
    /\ inflight' = inflight - 1
    /\ \E body \in bodies, page \in pages,
          label \in {l \in Labels : ~PageCountThrows(l)} :
          /\ ReadTokens(body)
          /\ rows' = page
          /\ pageCountText' = label
          /\ pageCount' = PageCountOf(label)
          /\ pc' = IF LoopContinues(pageNumber, PageCountOf(label))
                   THEN "LoopTop" ELSE "Done"
    /\ UNCHANGED <<run, searchVars, rubyVars, scriptTexts, seenKeys, dbVars,
                   token, pageNumber, rowIndex, yielded, pending, lastReq,
                   errorVars, countVars>>

\* the next page has arrived; the while condition is evaluated
RecvPageFrom(bodies, pages) ==
    /\ pc = "AwaitPage"
    /\ inflight > 0
    /\ inflight' = inflight - 1
    /\ \E body \in bodies, page \in pages :
          /\ ReadTokens(body)
          /\ rows' = page
    /\ pc' = IF LoopContinues(pageNumber, pageCount) THEN "LoopTop" ELSE "Done"
    /\ UNCHANGED <<run, searchVars, rubyVars, scriptTexts, seenKeys, dbVars,
                   token, cursorVars, rowIndex, yielded, pending, lastReq,
                   errorVars, countVars>>

RecvPage == RecvPageFrom(TokenPairsOf(pageCount), PagesOf(pageCount))

\* the script is invoked again over the data.sqlite the last run left
Restart ==
    /\ pc \in {"Done", "Error"}
    /\ run < MaxRuns
    /\ run' = run + 1
    /\ pc' = "Start"
    /\ token' = Null
    /\ eventValidation' = Undefined
    /\ viewState' = Undefined
    /\ pageNumber' = 0
    /\ pageCount' = 0
    /\ pageCountText' = <<>>
    /\ rows' = <<>>
    /\ rowIndex' = 0
    /\ pending' = <<>>
    /\ inflight' = 0
    /\ lastReq' = NoRequest
    /\ error' = "none"
    /\ reported' = FALSE
    /\ respTokens' = [ev |-> Undefined, vs |-> Undefined]
    /\ sent' = 0
    /\ pagePosts' = 0
    /\ processed' = 0
    /\ yielded' = <<>>
    /\ scriptTexts' = <<>>
    /\ seenKeys' = {}
    /\ dateFrom' = <<>>
    /\ dateTo' = <<>>
    /\ searchDate' = NoDate
    /\ UNCHANGED <<dbVars, rubyVars>>

\* the steps of one run
RunStep ==
    \/ initializeDatabase
    \/ SendLanding \/ RecvLanding
    \/ SendTokenGet \/ RecvTokenGet
    \/ SendLists \/ RecvLists
    \/ SendTab \/ RecvTab
    \/ SendSearch \/ RecvSearch
    \/ FailRequest
    \/ ParsePage
    \/ SkipRow \/ InsertRowCall \/ InsertRowDone \/ InsertRowFail
    \/ RowsDone
    \/ LoopBreak \/ SendPage \/ RecvPage

Next == RunStep \/ Restart

Spec == Init /\ [][Next]_vars

\* every request is answered or fails, every statement runs or fails, and
\* main() goes on when it can
FairSpec == Spec /\ WF_vars(RunStep)

\* ------------------------------------------------- the rows, one at a time
\* texts a first cell and a second cell can hold
AppNoInputs ==
    { <<"1", "2", "3", "/", "2", "0", "2", "4">>,
      <<>>,
      <<"D", "A", " ", "1", "2", "3", "/", "2", "0", "2", "4">>,
      <<"1", "2", "3", "/">>,
      <<"/", "2", "0", "2", "4">>,
      <<"1", "2", "3", "-", "2", "0", "2", "4">>,
      <<"1", "/", "2", "x">>,
      <<"1", "2", " ", "/", "3">>,
      <<"a", "b", "c">> }

DateInputs ==
    { <<"8", "/", "0", "3", "/", "2", "0", "2", "4">>,
      <<"0", "8", "/", "0", "3", "/", "2", "0", "2", "4">>,
      <<"8", "/", "3", "/", "2", "0", "2", "4">>,
      <<"3", "1", "/", "0", "2", "/", "2", "0", "2", "4">>,
      <<"2", "9", "/", "0", "2", "/", "2", "0", "2", "4">>,
      <<"2", "9", "/", "0", "2", "/", "2", "0", "2", "3">>,
      <<>>,
      <<" ", "8", "/", "0", "3", "/", "2", "0", "2", "4", " ">>,
      <<"0", "0", "8", "/", "0", "3", "/", "2", "0", "2", "4">>,
      <<"8", "/", "0", "3", "/", "2", "4">>,
      <<"0", "/", "0", "3", "/", "2", "0", "2", "4">>,
      <<"8", "/", "1", "3", "/", "2", "0", "2", "4">>,
      <<"8", "-", "0", "3", "-", "2", "0", "2", "4">>,
      <<"3", "1", "/", "0", "4", "/", "2", "0", "2", "4">> }

\* rows of three, four and five cells; the cells of the row of five have
\* white space around their text
RowInputs ==
    UNION { { <<c[1], c[2], <<"S", "h", "e", "d">>>>,
              <<c[1], c[2], <<"S", "h", "e", "d">>,
                <<"2", " ", "S", "m", "i", "t", "h", " ", "S", "t">>>>,
              <<c[1], c[2], <<" ", " ", "S", "h", "e", "d", " ">>,
                <<" ", "2", " ", "S", "m", "i", "t", "h", " ", "S", "t", " ", " ">>,
                <<"x">>>> } :
            c \in AppNoInputs \X DateInputs }

\* main() has the first page of results in hand; the page is one row, or it
\* is the page of the scenario
InitRows ==
    /\ run = 1
    /\ pc = "LoopTop"
    /\ schema = "current"
    /\ store = {}
    /\ token = Null
    /\ eventValidation = "ev1"
    /\ viewState = "vs1"
    /\ pageNumber = 1
    /\ pageCount = 1
    /\ pageCountText = LabelOf(1)
    /\ rows \in {<<r>> : r \in RowInputs} \cup {PageScenario}
    /\ rowIndex = 0
    /\ pending = <<>>
    /\ inflight = 0
    /\ lastReq = Request("search", 0, Null, "ev1", "vs1")
    /\ error = "none"
    /\ reported = FALSE
    /\ respTokens = [ev |-> "ev1", vs |-> "vs1"]
    /\ sent = 4
    /\ pagePosts = 0
    /\ processed = 0
    /\ yielded = <<>>
    /\ scriptTexts = <<>>
    /\ seenKeys = {}
    /\ dateFrom = FormatDMY(SubtractMonth(Today(1)).y, SubtractMonth(Today(1)).m,
                            SubtractMonth(Today(1)).d)
    /\ dateTo = FormatDMY(Today(1).y, Today(1).m, Today(1).d)
    /\ searchDate = Today(1)
    /\ RubyIdle

NextRows ==
    \/ ParsePage
    \/ SkipRow \/ InsertRowCall \/ InsertRowDone \/ InsertRowFail
    \/ RowsDone
    \/ LoopBreak

SpecRows == InitRows /\ [][NextRows]_vars

\* ------------------------------------------------ the scan of the landing page
MaxScripts == 2

\* texts that a script of the landing page can hold
ScriptTextInputs ==
    {
      \* the script of the landing page of the site
      <<"x", ".", "a", "s", "p", "x", "?", "j", "s", "=", "a", "b", "c", "1", "2", "3", "'", ";">>,
      \* a script without the marker
      <<"v", "a", "r", " ", "a", ";">>,
      \* the token ends at a double quote
      <<"y", ".", "a", "s", "p", "x", "?", "j", "s", "=", "-", "1", "8", "\"", "+", "z", "'">>,
      \* a quote right after the marker
      <<"a", ".", "a", "s", "p", "x", "?", "j", "s", "=", "'">>,
      \* no quote after the marker
      <<"a", ".", "a", "s", "p", "x", "?", "j", "s", "=", "z", "z">>,
      \* a quote before the marker
      <<"'", "q", "'", " ", "b", ".", "a", "s", "p", "x", "?", "j", "s", "=", "7", "'">>,
      \* a second marker after one that has no token
      <<"a", ".", "a", "s", "p", "x", "?", "j", "s", "=", "'", ";", "b", ".", "a", "s", "p", "x", "?", "j", "s", "=", "z", "z", "'">>,
      \* the marker in capitals
      <<"a", ".", "A", "S", "P", "X", "?", "j", "s", "=", "1", "'">> }

\* landing pages of up to MaxScripts scripts
ScriptInputs ==
    UNION { [1..n -> ScriptTextInputs] : n \in 0..MaxScripts }

\* main() has sent the GET of the landing page
InitToken ==
    /\ run = 1
    /\ pc = "AwaitLanding"
    /\ schema = "current"
    /\ store = {}
    /\ token = Null
    /\ eventValidation = Undefined
    /\ viewState = Undefined
    /\ pageNumber = 0
    /\ pageCount = 0
    /\ pageCountText = <<>>
    /\ rows = <<>>
    /\ rowIndex = 0
    /\ pending = <<>>
    /\ inflight = 1
    /\ lastReq = Request("landing", 0, Null, "n/a", "n/a")
    /\ error = "none"
    /\ reported = FALSE
    /\ respTokens = [ev |-> Undefined, vs |-> Undefined]
    /\ sent = 1
    /\ pagePosts = 0
    /\ processed = 0
    /\ yielded = <<>>
    /\ scriptTexts = <<>>
    /\ seenKeys = {}
    /\ dateFrom = <<>>
    /\ dateTo = <<>>
    /\ searchDate = NoDate
    /\ RubyIdle

NextToken ==
    \/ RecvLandingFrom(ScriptInputs)
    \/ SendTokenGet \/ RecvTokenGet
    \/ SendLists
    \/ FailRequest

SpecToken == InitToken /\ [][NextToken]_vars

\* ------------------------------------------- the same page, handled twice
NamedRows == {RowCarport, RowHeading, RowGarage, RowShed, RowShort, RowBadDate}

\* pages of up to two of the named rows, and the pages of the site
TwicePages == Pages \cup {<<r>> : r \in NamedRows} \cup (NamedRows \X NamedRows)

\* main() has the first of two pages of results in hand, the table is empty
InitTwice ==
    /\ run = 1
    /\ pc = "LoopTop"
    /\ schema = "current"
    /\ store = {}
    /\ token = Null
    /\ eventValidation = "ev1"
    /\ viewState = "vs1"
    /\ pageNumber = 1
    /\ pageCount = 2
    /\ pageCountText = LabelOf(2)
    /\ rows \in TwicePages
    /\ rowIndex = 0
    /\ pending = <<>>
    /\ inflight = 0
    /\ lastReq = Request("search", 0, Null, "ev1", "vs1")
    /\ error = "none"
    /\ reported = FALSE
    /\ respTokens = [ev |-> "ev1", vs |-> "vs1"]
    /\ sent = 4
    /\ pagePosts = 0
    /\ processed = 0
    /\ yielded = <<>>
    /\ scriptTexts = <<>>
    /\ seenKeys = {}
    /\ dateFrom = FormatDMY(SubtractMonth(Today(1)).y, SubtractMonth(Today(1)).m,
                            SubtractMonth(Today(1)).d)
    /\ dateTo = FormatDMY(Today(1).y, Today(1).m, Today(1).d)
    /\ searchDate = Today(1)
    /\ RubyIdle

\* the site answers the POST for page 2 with the rows of page 1 again
NextTwice ==
    \/ ParsePage
    \/ SkipRow \/ InsertRowCall \/ InsertRowDone \/ InsertRowFail
    \/ RowsDone
    \/ SendPage \/ RecvPageFrom(TokenPairs, {rows})
    \/ LoopBreak
    \/ FailRequest

SpecTwice == InitTwice /\ [][NextTwice]_vars

\* ------------------------------------------------- a run without data.sqlite
\* test.rb: File.delete("./data.sqlite"), then the script
InitFresh == Init /\ schema = "none"

SpecFresh == InitFresh /\ [][Next]_vars

\* ---------------------------------------------------------------- scraper.rb
MaxRecords == 3

NotOnFile == "Not on file"

\* records that EpathwayScraper.scrape can yield
RubyRecordInputs ==
    { [council_reference |-> c, address |-> "1 Smith St"] :
        c \in {NotOnFile, "123/2024", "not on file", ""} }

\* every record is saved
RubyKeepsAll(record) == TRUE

\* if record["council_reference"] != "Not on file"
RubyKeeps(record) == record.council_reference # NotOnFile

\* the block is called with a record and passes it to EpathwayScraper.save
RubySave ==
    /\ rbIndex < Len(rbRecords)
    /\ RubyKeeps(rbRecords[rbIndex + 1])
    /\ rbSaved' = Append(rbSaved, rbRecords[rbIndex + 1])
    /\ rbIndex' = rbIndex + 1
    /\ UNCHANGED <<run, searchVars, pc, dbVars, sessionVars, cursorVars,
                   rowVars, pending, inflight, lastReq, errorVars, countVars,
                   scriptTexts, seenKeys, rbRecords>>

\* the block is called with a record and does nothing with it
RubySkip ==
    /\ rbIndex < Len(rbRecords)
    /\ ~RubyKeeps(rbRecords[rbIndex + 1])
    /\ rbIndex' = rbIndex + 1
    /\ UNCHANGED <<run, searchVars, pc, dbVars, sessionVars, cursorVars,
                   rowVars, pending, inflight, lastReq, errorVars, countVars,
                   scriptTexts, seenKeys, rbRecords, rbSaved>>

\* scraper.rb is started; the scrape will yield up to MaxRecords records
InitRuby ==
    /\ run = 1
    /\ pc = "Start"
    /\ schema = "none"
    /\ store = {}
    /\ FreshRun
    /\ rbRecords \in UNION { [1..n -> RubyRecordInputs] : n \in 0..MaxRecords }
    /\ rbIndex = 0
    /\ rbSaved = <<>>

NextRuby == RubySave \/ RubySkip

SpecRuby == InitRuby /\ [][NextRuby]_vars

\* ------------------------------------------------ the dates of the search
FirstYear == 2023
YearSpan == 2

\* the dates on which the script can be run
RunDates ==
    { [y |-> y, m |-> m, d |-> d] :
        y \in FirstYear..(FirstYear + YearSpan - 1), m \in 1..12, d \in 1..31 }
        \ { date \in [y : FirstYear..(FirstYear + YearSpan - 1), m : 1..12, d : 29..31] :
                date.d > DaysInMonth(date.y, date.m) }

\* main() has switched to the date tab and is about to search
InitDates ==
    /\ run = 1
    /\ pc = "Search"
    /\ schema = "current"
    /\ store = {}
    /\ token = Null
    /\ eventValidation = "ev1"
    /\ viewState = "vs1"
    /\ pageNumber = 0
    /\ pageCount = 0
    /\ pageCountText = <<>>
    /\ rows = <<>>
    /\ rowIndex = 0
    /\ pending = <<>>
    /\ inflight = 0
    /\ lastReq = Request("tab", 0, Null, "ev1", "vs1")
    /\ error = "none"
    /\ reported = FALSE
    /\ respTokens = [ev |-> "ev1", vs |-> "vs1"]
    /\ sent = 3
    /\ pagePosts = 0
    /\ processed = 0
    /\ yielded = <<>>
    /\ scriptTexts = <<>>
    /\ seenKeys = {}
    /\ dateFrom = <<>>
    /\ dateTo = <<>>
    /\ searchDate = NoDate
    /\ RubyIdle

\* the clock gives any of the dates
SearchOnAnyDate == \E today \in RunDates : SendSearchOn(today)

NextDates == SearchOnAnyDate \/ FailRequest

SpecDates == InitDates /\ [][NextDates]_vars

\* ============================================================== properties
PostKinds == {"tab", "search", "page"}

\* C1: in any run, whatever page count the first page of results reports,
\* at most 100 page-fetch POSTs are sent.
C1_AtMostHundredPagePosts == pagePosts <= HardLimit

\* C2: when the paging label of the first page of results does not end in
\* digits (or is absent), the run goes on as with pageCount = 1: no error is
\* raised and no page-fetch POST is sent.
C2_NoPageCountMeansOnePage ==
    (pageNumber >= 1 /\ MatchTrailingDigits(pageCountText) = Null)
        => (error = "none" /\ pageCount = 1 /\ pagePosts = 0)

\* C3: no tab-switch, search-submit or page-fetch POST is ever sent with a
\* hidden field whose value is missing.
C3_NoPostWithMissingToken ==
    lastReq.kind \in PostKinds
        => (lastReq.ev # Undefined /\ lastReq.vs # Undefined)

\* C4: every POST carries the pair of hidden fields of the response that was
\* read last, never an earlier pair.
C4_PostCarriesLatestTokens ==
    (inflight > 0 /\ lastReq.kind \in PostKinds)
        => (lastReq.ev = respTokens.ev /\ lastReq.vs = respTokens.vs)

C4_Witness ==
    /\ pc = "AwaitPage"
    /\ pagePosts = 2
    /\ lastReq.kind = "page"
    /\ lastReq.ev = Undefined
    /\ lastReq.vs = "vs2"

\* the shape digits "/" digits anywhere in a text
HasApplicationNumberShape(text) ==
    \E i \in 1..Len(text), j \in 1..Len(text) :
        /\ i <= j
        /\ \A k \in i..j : text[k] \in Digits
        /\ j + 2 <= Len(text)
        /\ text[j + 1] = "/"
        /\ text[j + 2] \in Digits

\* one or two digits, "/", two digits, "/", four digits that name a day of
\* the calendar
IsLenientDate(text) ==
    \E n \in {1, 2} :
        /\ Len(text) = n + 8
        /\ \A k \in (1..n) \cup ((n + 2)..(n + 3)) \cup ((n + 5)..(n + 8)) :
              text[k] \in Digits
        /\ text[n + 1] = "/"
        /\ text[n + 4] = "/"
        /\ LET day == ToNumber(SubSeq(text, 1, n))
               month == ToNumber(SubSeq(text, n + 2, n + 3))
               year == ToNumber(SubSeq(text, n + 5, n + 8))
           IN  /\ month \in 1..12
               /\ day \in 1..DaysInMonth(year, month)

IsApplicationRow(tableCells) ==
    /\ Len(tableCells) >= 4
    /\ HasApplicationNumberShape(Trim(tableCells[1]))
    /\ IsLenientDate(Trim(tableCells[2]))

\* the rows of the page that the for loop has dealt with
RowsHandled == IF pc = "AwaitInsert" THEN rowIndex ELSE rowIndex - 1

\* C5: a row yields exactly one record when it has at least four cells, an
\* application number of the shape digits "/" digits and a date that parses
\* under the lenient day rule, and no record otherwise; the two rows of the
\* scenario yield one record, that of the first row.
C5_OneRecordPerApplicationRow ==
    pc \in {"Rows", "AwaitInsert", "AfterRows"} =>
        /\ \A i \in 1..RowsHandled :
              Cardinality({k \in 1..Len(yielded) : yielded[k].row = i})
                  = IF IsApplicationRow(rows[i]) THEN 1 ELSE 0
        /\ (rows = PageScenario /\ RowsHandled = 2)
              => (Len(yielded) = 1 /\ yielded[1].row = 1
                  /\ yielded[1].da.applicationNumber = AppNo123)

C5_Witness ==
    /\ rows = PageScenario
    /\ pc = "AfterRows"
    /\ Len(yielded) = 1
    /\ store # {}

\* C6: every run in which no request and no insert fails reaches the end of
\* main(), whatever the paging label of the first page of results holds.
C6_RunReturns ==
    \A r \in 1..MaxRuns :
        (run = r /\ pc = "Start")
            ~> (run = r /\ (pc = "Done" \/ error \in {"transport", "store"}))

\* C7: the store never holds two rows with the same council_reference,
\* within a run and over consecutive runs.
C7_OneRowPerApplicationNumber ==
    \A r1 \in store, r2 \in store :
        r1.council_reference = r2.council_reference => r1 = r2

C7_Witness ==
    /\ run = 2
    /\ Cardinality(store) = 2
    /\ \E r \in store :
          /\ r.council_reference = AppNo123
          /\ r.date_scraped = FormatYMD(Today(2).y, Today(2).m, Today(2).d)

C9_StrictlySequential ==
    /\ [](inflight + Len(pending) <= 1)
    /\ [][pagePosts' # pagePosts /\ run' = run =>
            /\ pending = <<>>
            /\ {yielded[k].row : k \in 1..Len(yielded)}
                 = {i \in 1..Len(rows) : IsApplicationRow(rows[i])}
            /\ \A k \in 1..Len(yielded) :
                  \E r \in store :
                      r.council_reference = yielded[k].da.applicationNumber]_vars

C9_Witness ==
    /\ pc = "AwaitPage"
    /\ inflight = 1
    /\ Len(yielded) = 2
    /\ pending = <<>>

\* C10: when a request fails the run ends there: main() is rejected and the
\* error is printed, the request is not sent again, no later request and no
\* later insertRow call is made, and the rows stored so far stay as they are.
C10_RequestFailureEndsRun ==
    /\ [](error = "transport" =>
            (pc = "Error" /\ reported /\ inflight = 0 /\ pending = <<>>))
    /\ [][error' = "transport" /\ error = "none" =>
            (store' = store /\ sent' = sent /\ lastReq' = lastReq)]_vars
    /\ [][error = "transport" /\ run' = run =>
            UNCHANGED <<store, sent, lastReq, pending, yielded, inflight>>]_vars

C10_Witness ==
    /\ error = "transport"
    /\ pc = "Error"
    /\ lastReq.kind = "page"
    /\ \E r \in store :
          r.date_scraped = FormatYMD(Today(run).y, Today(run).m, Today(run).d)


\* the kinds of request that may follow one another within a run
RequestSuccessors ==
    { <<"none", "landing">>, <<"landing", "token">>, <<"landing", "lists">>,
      <<"token", "lists">>, <<"lists", "tab">>, <<"tab", "search">>,
      <<"search", "page">>, <<"page", "page">> }

\* C11: within a run the requests go out in the order landing GET, the
\* landing GET with the js token (only this one may be left out), lists GET,
\* tab POST, search POST, page POSTs; a request is sent only when the
\* response to the one before has been received, and no record is handed
\* over before the response to the search POST has arrived.
C11_FixedRequestOrder ==
    [][ /\ (run' = run /\ sent' # sent) =>
              /\ sent' = sent + 1
              /\ inflight = 0
              /\ <<lastReq.kind, lastReq'.kind>> \in RequestSuccessors
        /\ (yielded' # <<>> \/ pending' # <<>>) =>
              /\ lastReq'.kind \in {"search", "page"}
              /\ sent' >= 4
              /\ pageNumber' >= 1 ]_vars

C11_Witness ==
    /\ pc = "AwaitPage"
    /\ pagePosts = 2
    /\ sent = 7
    /\ token # Null
    /\ lastReq.kind = "page"

\* C12: the lists GET is sent only after the landing page was fetched and
\* scanned; when the scan found a token the landing page is fetched once
\* more, with that token as js, before the lists GET; when it found none the
\* run goes straight on to the lists GET and raises no error.
C12_LandingScannedBeforeLists ==
    [][ /\ (run' = run /\ sent' # sent /\ lastReq'.kind = "lists") =>
              IF token # Null
              THEN lastReq.kind = "token" /\ lastReq.js = token /\ sent = 2
              ELSE lastReq.kind = "landing" /\ sent = 1
        /\ (run' = run /\ sent' # sent /\ lastReq'.kind = "token") =>
              /\ lastReq.kind = "landing"
              /\ token # Null
              /\ lastReq'.js = token
        /\ (pc = "AwaitLanding" /\ pc' # pc /\ error' # "transport") =>
              /\ error' = "none"
              /\ pc' = IF token' = Null THEN "Lists" ELSE "Token" ]_vars

C12_Witness ==
    /\ pc = "AwaitLists"
    /\ token = <<"a", "b", "c", "1", "2", "3">>
    /\ sent = 3
    /\ lastReq.kind = "lists"

\* C13: within a run pageCount changes only when the response to the search
\* POST is read, to the count that this response's paging label gives, and
\* keeps that value from then on, whatever later pages hold.
C13_PageCountFixedBySearch ==
    [][ /\ (run' = run /\ pageCount' # pageCount) =>
              /\ pc = "AwaitSearch"
              /\ lastReq.kind = "search"
              /\ pageNumber = 0
              /\ pageCount' = PageCountOf(pageCountText')
        /\ (run' = run /\ pageNumber >= 1) =>
              /\ pageCount' = pageCount
              /\ pageCountText' = pageCountText ]_vars

C13_Witness ==
    /\ pc = "AwaitPage"
    /\ pageCount = 3
    /\ pagePosts = 2
    /\ rows = PageMixed
    /\ pageCountText = LabelOf(3)

Date8March == <<"8", "/", "0", "3", "/", "2", "0", "2", "4">>
Date8March3 == <<"8", "/", "3", "/", "2", "0", "2", "4">>
Date31February == <<"3", "1", "/", "0", "2", "/", "2", "0", "2", "4">>

\* a date text whose month is written with one digit
HasOneDigitMonth(text) ==
    \E i \in 1..Len(text), j \in 1..Len(text) :
        /\ j = i + 2
        /\ text[i] = "/" /\ text[j] = "/"
        /\ IsDigit(text[i + 1])

\* C14: "8/03/2024" parses to day 8, month 3, year 2024 and is stored as
\* 2024-03-08; a date whose month has one digit ("8/3/2024") or that is not
\* in the calendar ("31/02/2024") does not parse and its row is discarded.
C14_DayMayDropLeadingZero ==
    /\ MomentParse(Date8March) = [day |-> 8, month |-> 3, year |-> 2024, valid |-> TRUE]
    /\ pc \in {"Rows", "AwaitInsert", "AfterRows"} =>
          \A i \in 1..RowsHandled :
             LET text == IF Len(rows[i]) >= 2 THEN Trim(rows[i][2]) ELSE <<>>
                 calls == {k \in 1..Len(yielded) : yielded[k].row = i}
             IN  /\ (/\ text = Date8March
                     /\ Len(rows[i]) >= 4
                     /\ HasApplicationNumberShape(Trim(rows[i][1])))
                       => \E k \in calls :
                             yielded[k].da.receivedDate = <<"2", "0", "2", "4", "-", "0", "3", "-", "0", "8">>
                 /\ (text \in {Date8March3, Date31February} \/ HasOneDigitMonth(text))
                       => calls = {}

C14_Witness ==
    /\ pc = "AfterRows"
    /\ Len(rows) = 1
    /\ Len(rows[1]) = 4
    /\ rows[1][2] = Date8March
    /\ Len(yielded) = 1
    /\ yielded[1].da.receivedDate = <<"2", "0", "2", "4", "-", "0", "3", "-", "0", "8">>
    /\ \E r \in store : r.date_received = <<"2", "0", "2", "4", "-", "0", "3", "-", "0", "8">>


Quotes == {"'", "\""}

\* the marker stands in the text with its first character at position i
MarkerAt(text, i) ==
    /\ i + Len(JsMarker) - 1 <= Len(text)
    /\ SubSeq(text, i, i + Len(JsMarker) - 1) = JsMarker

\* the text has the marker, and after its first marker one character or
\* more, none of them a quote, and then a quote
HasQuotedToken(text) ==
    \E i \in 1..Len(text), q \in 1..Len(text) :
        /\ MarkerAt(text, i)
        /\ \A h \in 1..(i - 1) : ~MarkerAt(text, h)
        /\ q > i + Len(JsMarker)
        /\ text[q] \in Quotes
        /\ \A h \in (i + Len(JsMarker))..(q - 1) : text[h] \notin Quotes

\* the characters between "js=" of the first marker and the first quote
\* after it
QuotedToken(text) ==
    LET i == CHOOSE h \in 1..Len(text) : MarkerAt(text, h) /\ \A g \in 1..(h - 1) : ~MarkerAt(text, g)
        q == CHOOSE h \in (i + Len(JsMarker))..Len(text) :
                 text[h] \in Quotes /\ \A g \in (i + Len(JsMarker))..(h - 1) : text[g] \notin Quotes
    IN  SubSeq(text, i + Len(JsMarker), q - 1)

\* C15: when a script of the landing page has ".aspx?js=", then characters,
\* then a single or double quote, the token is exactly the characters
\* between "js=" and the first quote that follows, taken from the first
\* such script; "...EnquiryLists.aspx?js=abc123'..." gives abc123.
C15_TokenIsTextUpToQuote ==
    /\ parseToken(<<<<"L", "i", "s", "t", "s", "/", "E", "n", "q", "u", "i", "r", "y", "L", "i", "s", "t", "s", ".", "a", "s", "p", "x", "?", "j", "s", "=", "a", "b", "c", "1", "2", "3", "'", ";">>>>) = <<"a", "b", "c", "1", "2", "3">>
    /\ (pc \in {"Token", "AwaitToken", "Lists"} /\ sent <= 2 /\ lastReq.kind # "lists") =>
          \A k \in 1..Len(scriptTexts) :
              (/\ HasQuotedToken(scriptTexts[k])
               /\ \A h \in 1..(k - 1) : ~HasQuotedToken(scriptTexts[h]))
                  => token = QuotedToken(scriptTexts[k])

C15_Witness ==
    /\ pc = "AwaitToken"
    /\ scriptTexts = <<<<"v", "a", "r", " ", "a", ";">>, <<"y", ".", "a", "s", "p", "x", "?", "j", "s", "=", "-", "1", "8", "\"", "+", "z", "'">>>>
    /\ token = <<"-", "1", "8">>
    /\ lastReq.js = <<"-", "1", "8">>


\* the application numbers of the application rows of a page, in page order
RECURSIVE ExpectedKeys(_)
ExpectedKeys(page) ==
    IF page = <<>> THEN <<>>
    ELSE (IF IsApplicationRow(Head(page)) THEN <<Trim(Head(page)[1])>> ELSE <<>>)
            \o ExpectedKeys(Tail(page))

\* C16: when the rows of one page are handled twice (the site answers the
\* POST for page 2 with page 1 again, the table being empty at first), each
\* pass makes the same sequence of insertRow calls, that of the application
\* rows of the page in page order, and from the end of the first pass on the
\* table holds exactly the keys of those rows.
C16_SecondPassSameKeys ==
    /\ pc = "AfterRows" =>
          [k \in 1..Len(yielded) |-> yielded[k].da.applicationNumber]
              = ExpectedKeys(rows)
    /\ processed >= 1 =>
          {r.council_reference : r \in store}
              = {ExpectedKeys(rows)[k] : k \in 1..Len(ExpectedKeys(rows))}

C16_Witness ==
    /\ pc = "AfterRows"
    /\ processed = 2
    /\ pagePosts = 1
    /\ rows = PageMixed
    /\ Len(yielded) = 2
    /\ Cardinality(store) = 2


\* C17: insertRow inserts a row only if none with its council_reference is
\* in the table: a stored row with the same council_reference keeps all its
\* fields when insertRow is called.
C17_StoredRowKept ==
    [][ \A r \in store :
           (/\ run' = run
            /\ pending # <<>>
            /\ pending' = Tail(pending)
            /\ Head(pending).applicationNumber = r.council_reference)
               => r \in store' ]_vars


C20_RejectedRowIsSkipped ==
    [][ /\ (/\ pc = "Rows"
            /\ rowIndex <= Len(rows)
            /\ ~IsApplicationRow(rows[rowIndex])
            /\ vars' # vars) =>
               /\ pc' = "Rows"
               /\ rowIndex' = rowIndex + 1
               /\ error' = "none"
               /\ yielded' = yielded
               /\ rows' = rows
        /\ pc' = "AfterRows" =>
               \A i \in 1..Len(rows') :
                   IsApplicationRow(rows'[i])
                       => \E k \in 1..Len(yielded') : yielded'[k].row = i ]_vars

C20_Witness ==
    /\ pc = "AfterRows"
    /\ rows = PageMixed
    /\ processed = 2
    /\ error = "none"
    /\ Len(yielded) = 2
    /\ yielded[1].row = 2
    /\ yielded[2].row = 3


\* C19: in scraper.rb the records passed to EpathwayScraper.save are, in the
\* order of the scrape, exactly the records yielded so far whose
\* council_reference is not "Not on file"; a record whose council_reference
\* is "Not on file" is never saved.
C19_NotOnFileNeverSaved ==
    /\ rbSaved = SelectSeq(SubSeq(rbRecords, 1, rbIndex),
                           LAMBDA record : record.council_reference # "Not on file")
    /\ \A k \in 1..Len(rbSaved) : rbSaved[k].council_reference # "Not on file"

C19_Witness ==
    /\ Len(rbRecords) = 3
    /\ rbIndex = 3
    /\ rbRecords[2].council_reference = "Not on file"
    /\ Len(rbSaved) = 2
    /\ rbSaved[2] = rbRecords[3]


\* the date that a text of the form DD/MM/YYYY writes, NoDate for other texts
DateTextValue(text) ==
    IF /\ Len(text) = 10
       /\ text[3] = "/" /\ text[6] = "/"
       /\ \A i \in {1, 2, 4, 5, 7, 8, 9, 10} : IsDigit(text[i])
    THEN [y |-> ToNumber(SubSeq(text, 7, 10)), m |-> ToNumber(SubSeq(text, 4, 5)),
          d |-> ToNumber(SubSeq(text, 1, 2))]
    ELSE NoDate

\* a date of the Gregorian calendar
IsCalendarDate(date) ==
    /\ date.m \in 1..12
    /\ date.d >= 1
    /\ date.d <= CASE date.m \in {1, 3, 5, 7, 8, 10, 12} -> 31
                   [] date.m \in {4, 6, 9, 11} -> 30
                   [] OTHER -> IF date.y % 400 = 0 \/ (date.y % 4 = 0 /\ date.y % 100 # 0)
                               THEN 29 ELSE 28

DateNotLater(a, b) ==
    \/ a.y < b.y
    \/ a.y = b.y /\ a.m < b.m
    \/ a.y = b.y /\ a.m = b.m /\ a.d <= b.d

\* C21: the search POST carries, as DD/MM/YYYY, a to date that is the date
\* of the run and a from date that is that date one calendar month earlier
\* (its last day when the earlier month is shorter); the from date is a date
\* of the calendar and is not later than the to date.
C21_SearchDates ==
    searchDate # NoDate =>
        LET from == DateTextValue(dateFrom)
            to == DateTextValue(dateTo)
            sameDay == [y |-> from.y, m |-> from.m, d |-> searchDate.d]
        IN  /\ lastReq.kind \in {"search", "page"}
            /\ to = searchDate
            /\ IsCalendarDate(from)
            /\ DateNotLater(from, to)
            /\ from.y * 12 + from.m + 1 = to.y * 12 + to.m
            /\ IF IsCalendarDate(sameDay) THEN from = sameDay
               ELSE ~IsCalendarDate([from EXCEPT !.d = from.d + 1])

C21_Witness ==
    /\ pc = "AwaitSearch"
    /\ lastReq.kind = "search"
    /\ searchDate = [y |-> 2024, m |-> 3, d |-> 31]
    /\ dateTo = <<"3", "1", "/", "0", "3", "/", "2", "0", "2", "4">>
    /\ dateFrom = <<"2", "9", "/", "0", "2", "/", "2", "0", "2", "4">>


\* the date that a text of the form YYYY-MM-DD writes, NoDate for other texts
IsoDateValue(text) ==
    IF /\ Len(text) = 10
       /\ text[5] = "-" /\ text[8] = "-"
       /\ \A i \in {1, 2, 3, 4, 6, 7, 9, 10} : IsDigit(text[i])
    THEN [y |-> ToNumber(SubSeq(text, 1, 4)), m |-> ToNumber(SubSeq(text, 6, 7)),
          d |-> ToNumber(SubSeq(text, 9, 10))]
    ELSE NoDate

\* the date that a text of the form D/MM/YYYY or DD/MM/YYYY writes
LenientDateValue(text) ==
    IF Len(text) = 9 THEN DateTextValue(<<"0">> \o text) ELSE DateTextValue(text)

\* C22: every record handed to insertRow has the trimmed text of cell 0 of
\* its row as applicationNumber, the date of cell 1 as receivedDate, the
\* trimmed text of cell 2 as description and the trimmed text of cell 3 as
\* address, whether the row has four cells or more.
C22_FieldsByPosition ==
    pc \in {"Rows", "AwaitInsert", "AfterRows"} =>
        \A k \in 1..Len(yielded) :
            LET tableCells == rows[yielded[k].row]
                developmentApplication == yielded[k].da
            IN  /\ Len(tableCells) >= 4
                /\ developmentApplication.applicationNumber = Trim(tableCells[1])
                /\ developmentApplication.description = Trim(tableCells[3])
                /\ developmentApplication.address = Trim(tableCells[4])
                /\ IsoDateValue(developmentApplication.receivedDate) # NoDate
                /\ IsoDateValue(developmentApplication.receivedDate)
                      = LenientDateValue(Trim(tableCells[2]))

C22_Witness ==
    /\ pc = "AfterRows"
    /\ Len(rows) = 1
    /\ Len(rows[1]) = 5
    /\ rows[1][4] = <<" ", "2", " ", "S", "m", "i", "t", "h", " ", "S", "t", " ", " ">>
    /\ Len(yielded) = 1
    /\ yielded[1].da.address = <<"2", " ", "S", "m", "i", "t", "h", " ", "S", "t">>
    /\ yielded[1].da.description = <<"S", "h", "e", "d">>
    /\ \E r \in store : r.address = <<"2", " ", "S", "m", "i", "t", "h", " ", "S", "t">>


\* the stored row has the fields of the record, column by column
StoresRecord(row, developmentApplication) ==
    /\ row.council_reference = developmentApplication.applicationNumber
    /\ row.address = developmentApplication.address
    /\ row.description = developmentApplication.description
    /\ row.info_url = developmentApplication.informationUrl
    /\ row.date_scraped = developmentApplication.scrapeDate
    /\ row.date_received = developmentApplication.receivedDate

DigitSuffixes(text) ==
    {p \in 1..Len(text) : \A i \in p..Len(text) : IsDigit(text[i])}

\* the number that the text ends in (the text ends in a digit)
TrailingNumber(text) ==
    LET first == CHOOSE p \in DigitSuffixes(text) : \A q \in DigitSuffixes(text) : p <= q
    IN  ToNumber(SubSeq(text, first, Len(text)))

\* C24: in every state in which the page loop has been entered pageCount is
\* at least 1: it is 1 when the paging label ends in the number 0 and k when
\* it ends in a number k >= 1.
C24_PageCountAtLeastOne ==
    pc \in {"LoopTop", "Rows", "AwaitInsert", "AfterRows", "AwaitPage", "Done"} =>
        /\ pageCount \in Nat
        /\ pageCount >= 1
        /\ DigitSuffixes(pageCountText) # {}
        /\ pageCount = IF TrailingNumber(pageCountText) = 0 THEN 1
                       ELSE TrailingNumber(pageCountText)

C24_Witness ==
    /\ pc = "Done"
    /\ pageCountText = <<"o", "f", " ", "0">>
    /\ pageCount = 1
    /\ processed = 1
    /\ pagePosts = 0


\* the positions of the text at which ".aspx?js=" starts
MarkerPositions(text) ==
    {i \in 1..Len(text) :
        /\ i + 8 <= Len(text)
        /\ SubSeq(text, i, i + 8) = <<".", "a", "s", "p", "x", "?", "j", "s", "=">>}

\* the script gives no token: it has no marker, or right after its first
\* marker stands a quote, or no quote stands anywhere after its first marker
GivesNoToken(text) ==
    \/ MarkerPositions(text) = {}
    \/ LET first == CHOOSE i \in MarkerPositions(text) :
                       \A j \in MarkerPositions(text) : i <= j
       IN  \/ first + 9 > Len(text)
           \/ text[first + 9] \in {"'", "\""}
           \/ \A h \in (first + 9)..Len(text) : text[h] \notin {"'", "\""}

\* C25: the token that parseToken returns is null or a text of one
\* character or more without a single or double quote; it is null when no
\* script has ".aspx?js="; a script whose first ".aspx?js=" is followed at
\* once by a quote, or by no quote at all, gives no token and the scan goes
\* on with the next script.
C25_TokenNullOrQuoteFree ==
    /\ token # Null =>
          /\ Len(token) >= 1
          /\ \A i \in 1..Len(token) : token[i] \notin {"'", "\""}
    /\ (lastReq.kind = "landing" /\ pc \in {"Token", "Lists"}) =>
          /\ (\A k \in 1..Len(scriptTexts) : MarkerPositions(scriptTexts[k]) = {})
                => token = Null
          /\ (\A k \in 1..Len(scriptTexts) : GivesNoToken(scriptTexts[k]))
                => token = Null
          /\ \A k \in 1..Len(scriptTexts) :
                (/\ ~GivesNoToken(scriptTexts[k])
                 /\ \A h \in 1..(k - 1) : GivesNoToken(scriptTexts[h]))
                    => token = parseToken(<<scriptTexts[k]>>)

C25_Witness ==
    /\ pc = "Token"
    /\ lastReq.kind = "landing"
    /\ scriptTexts = <<<<"a", ".", "a", "s", "p", "x", "?", "j", "s", "=", "'">>, <<"x", ".", "a", "s", "p", "x", "?", "j", "s", "=", "a", "b", "c", "1", "2", "3", "'", ";">>>>
    /\ token = <<"a", "b", "c", "1", "2", "3">>


AppNoWithPrefix == <<"D", "A", " ", "1", "2", "3", "/", "2", "0", "2", "4">>

\* C26: of the rows with four cells or more and a date that parses, a row is
\* handed to insertRow exactly when its first cell has, anywhere in it, one
\* or more digits followed at once by "/" and a digit; the cell
\* "DA 123/2024" is accepted and its row is stored under the key
\* "DA 123/2024".
C26_ApplicationNumberIsSearched ==
    pc \in {"Rows", "AwaitInsert", "AfterRows"} =>
        \A i \in 1..RowsHandled :
            (Len(rows[i]) >= 4 /\ IsLenientDate(Trim(rows[i][2]))) =>
                LET calls == {k \in 1..Len(yielded) : yielded[k].row = i}
                IN  /\ (calls # {}) <=> HasApplicationNumberShape(Trim(rows[i][1]))
                    /\ rows[i][1] = AppNoWithPrefix =>
                          /\ \E k \in calls :
                                yielded[k].da.applicationNumber = AppNoWithPrefix
                          /\ pc = "AfterRows" =>
                                \E row \in store :
                                    row.council_reference = AppNoWithPrefix

C26_Witness ==
    /\ pc = "AfterRows"
    /\ Len(rows) = 1
    /\ rows[1][1] = AppNoWithPrefix
    /\ Len(yielded) = 1
    /\ store # {}
    /\ \A row \in store : row.council_reference = AppNoWithPrefix


\* C27: when the table was empty at the start, every row it holds in any
\* state has a council_reference that is not empty and has digits "/"
\* digits in it, and a date_received of the form YYYY-MM-DD that is a date
\* of the calendar, never the empty text.
C27_StoredRowsWellFormed ==
    \A row \in store :
        /\ row.council_reference # <<>>
        /\ HasApplicationNumberShape(row.council_reference)
        /\ row.date_received # <<>>
        /\ IsoDateValue(row.date_received) # NoDate
        /\ IsCalendarDate(IsoDateValue(row.date_received))

C27_Witness ==
    /\ pc = "AfterRows"
    /\ Len(rows) = 1
    /\ rows[1][2] = <<"2", "9", "/", "0", "2", "/", "2", "0", "2", "4">>
    /\ \E row \in store :
          /\ row.date_received = <<"2", "0", "2", "4", "-", "0", "2", "-", "2", "9">>
          /\ row.council_reference = <<"1", "/", "2", "x">>


\* C28: when an insertRow call fails with an error of the store, the run is
\* over: main() is rejected and the error is printed at the top level; from
\* then on, within the run, no row is inserted or handed to insertRow and no
\* request is sent.
C28_StoreErrorEndsRun ==
    [][ /\ error' = "store" =>
              /\ pc' = "Error"
              /\ reported'
              /\ pending' = <<>>
              /\ inflight' = 0
        /\ (error # "store" /\ error' = "store") =>
              /\ pc = "AwaitInsert"
              /\ store' = store
        /\ (error = "store" /\ run' = run) =>
              /\ store' = store
              /\ sent' = sent
              /\ pagePosts' = pagePosts
              /\ yielded' = yielded
              /\ rowIndex' = rowIndex ]_vars

C28_Witness ==
    /\ run = 1
    /\ pc = "Error"
    /\ error = "store"
    /\ reported
    /\ rows = PageMixed
    /\ rowIndex = 2
    /\ pageCount = 2
    /\ pagePosts = 0
    /\ \A row \in store : row.council_reference # AppNo124


\* C29: initializeDatabase leaves every stored row in place unless the data
\* table has the column on_notice_from; when it has, the table is dropped
\* and created anew, so that it is empty when the first request is sent.
C29_InitializeKeepsRows ==
    [][ (pc = "Start" /\ pc' # "Start") =>
            /\ pc' = "Landing"
            /\ schema' = "current"
            /\ sent' = 0
            /\ IF schema = "legacy" THEN store' = {} ELSE store' = store ]_vars

C29_Witness ==
    /\ run = 1
    /\ pc = "Landing"
    /\ schema = "current"
    /\ store = {OldRow}
    /\ sent = 0

====
